---------------------------- MODULE Spec2Model ----------------------------
(***************************************************************************)
(* A model of the text highlighter: the StorageManager (chrome.storage     *)
(* read-modify-write helpers) and the TextHighlighter content script       *)
(* (anchor creation, marker insertion, restoration on load, note editing   *)
(* and removal), both from src/utils/storage.js.                           *)
(*                                                                         *)
(* Text is a sequence of one-character strings; offsets are the 0-based    *)
(* offsets of the JavaScript code.  The body of the page is a tree of      *)
(* node records; a node is addressed by its path, the sequence of child    *)
(* indexes leading to it from <body>.                                      *)
(***************************************************************************)
EXTENDS Integers, Sequences, FiniteSets, TLC

(***************************************************************************)
(* Bounds of the model.                                                    *)
(***************************************************************************)
MaxOps == 3
MaxAnchorOps == 2
MaxPopupOps == 2
MaxFailureOps == 2
MaxImportOps == 3
MaxShareOps == 2
MaxIdOps == 2
MaxRangeOps == 2
MaxTabOps == 2
MaxSyncOps == 3
MaxBackendOps == 3

(***************************************************************************)
(* Program constants.                                                      *)
(***************************************************************************)
ContextLen == 50
CheckLen == 20

\* The null of records (anchors, XPaths, settings) and the null of node paths.
Null == [null |-> TRUE]
NoNode == <<-1>>
Url == "pageA"
OtherUrl == "pageB"
Urls == {Url, OtherUrl}
Colors == {"yellow", "green"}
Notes == {"n"}
\* The data-highlight-id of an element that is no marker.
NoId == 0

(***************************************************************************)
(* JavaScript string functions.                                            *)
(***************************************************************************)
MinOf(a, b) == IF a < b THEN a ELSE b

MaxOf(a, b) == IF a > b THEN a ELSE b

Clamp(i, n) == MaxOf(0, MinOf(i, n))

\* s.substring(a, b)
substring(s, a, b) ==
    LET x == Clamp(a, Len(s))
        y == Clamp(b, Len(s))
    IN  SubSeq(s, MinOf(x, y) + 1, MaxOf(x, y))

\* s.indexOf(t)
indexOf(s, t) ==
    LET hits == {i \in 0..(Len(s) - Len(t)) : SubSeq(s, i + 1, i + Len(t)) = t}
    IN  IF hits = {} THEN -1 ELSE CHOOSE i \in hits : \A j \in hits : i <= j

\* s.includes(t)
includes(s, t) == indexOf(s, t) # -1

\* s.slice(-n)
sliceLast(s, n) == SubSeq(s, MaxOf(1, Len(s) - n + 1), Len(s))

\* s.slice(0, n)
sliceFirst(s, n) == SubSeq(s, 1, MinOf(n, Len(s)))

IsSpace(c) == c = " "

\* s.trim()
trim(s) ==
    LET keep == {i \in 1..Len(s) : ~IsSpace(s[i])}
    IN  IF keep = {} THEN <<>>
        ELSE SubSeq(s, CHOOSE i \in keep : \A j \in keep : i <= j,
                       CHOOSE i \in keep : \A j \in keep : i >= j)

(***************************************************************************)
(* DOM nodes.                                                              *)
(***************************************************************************)
Text(s) ==
    [kind |-> "text", tag |-> "", id |-> "", hid |-> NoId, color |-> "",
     note |-> "", data |-> s, kids |-> <<>>]

Elem(tag, id, kids) ==
    [kind |-> "elem", tag |-> tag, id |-> id, hid |-> NoId, color |-> "",
     note |-> "", data |-> <<>>, kids |-> kids]

\* the <span class="text-highlighter-mark ..."> of applyHighlight
MarkSpan(h, kids) ==
    [kind |-> "elem", tag |-> "span", id |-> "", hid |-> h.id, color |-> h.color,
     note |-> h.note, data |-> <<>>, kids |-> kids]

IsMark(n) == n.kind = "elem" /\ n.hid # NoId

Front(p) == SubSeq(p, 1, Len(p) - 1)

Last(p) == p[Len(p)]

\* The Document node (the parent of <html>); no path from <body> leads to it.
DocumentNode == <<0>>

RECURSIVE NodeAt(_, _)
NodeAt(n, p) == IF p = <<>> THEN n ELSE NodeAt(n.kids[Head(p)], Tail(p))

RECURSIVE SetKids(_, _, _)
SetKids(n, p, ks) ==
    IF p = <<>> THEN [n EXCEPT !.kids = ks]
    ELSE [n EXCEPT !.kids[Head(p)] = SetKids(@, Tail(p), ks)]

\* The paths of the descendants of n (n is at path p), in document order.
RECURSIVE Paths(_, _)
Paths(n, p) ==
    LET F[i \in 0..Len(n.kids)] ==
            IF i = 0 THEN <<>>
            ELSE F[i - 1] \o <<Append(p, i)>> \o Paths(n.kids[i], Append(p, i))
    IN  F[Len(n.kids)]

\* All nodes of the body, the body first, in document order.
AllPaths(d) == <<(<<>>)>> \o Paths(d, <<>>)

IsTextAt(d, p) == NodeAt(d, p).kind = "text"

\* The text nodes below the element at p, in document order (a TreeWalker
\* with NodeFilter.SHOW_TEXT).
TextPathsUnder(d, p) ==
    SelectSeq(Paths(NodeAt(d, p), p), LAMBDA q : IsTextAt(d, q))

\* The markers of the document, in document order.
MarkPaths(d) == SelectSeq(AllPaths(d), LAMBDA q : IsMark(NodeAt(d, q)))

\* The markers of d carrying the id, in document order.
MarksOf(d, highlightId) ==
    SelectSeq(MarkPaths(d), LAMBDA q : NodeAt(d, q).hid = highlightId)

Range(s) == {s[i] : i \in 1..Len(s)}

RECURSIVE Concat(_)
Concat(ss) == IF ss = <<>> THEN <<>> ELSE Head(ss) \o Concat(Tail(ss))

\* node.textContent
textContent(d, p) ==
    IF IsTextAt(d, p) THEN NodeAt(d, p).data
    ELSE LET tp == TextPathsUnder(d, p)
         IN  Concat([i \in 1..Len(tp) |-> NodeAt(d, tp[i]).data])

(***************************************************************************)
(* Ranges.  A range is [sc, so, ec, eo]: start container and offset, end   *)
(* container and offset.  The containers are text nodes, or both the       *)
(* Document node (a selection of the whole document).                      *)
(***************************************************************************)
MkRange(sc, so, ec, eo) == [sc |-> sc, so |-> so, ec |-> ec, eo |-> eo]

\* Position of path p in the sequence ps (0 when absent).
PosIn(ps, p) ==
    IF \E i \in 1..Len(ps) : ps[i] = p
    THEN CHOOSE i \in 1..Len(ps) : ps[i] = p /\ \A j \in 1..(i - 1) : ps[j] # p
    ELSE 0

\* selection.toString()
toString(d, r) ==
    IF r.sc = DocumentNode THEN textContent(d, <<>>)
    ELSE IF r.sc = r.ec THEN substring(NodeAt(d, r.sc).data, r.so, r.eo)
    ELSE LET tp == TextPathsUnder(d, <<>>)
             i  == PosIn(tp, r.sc)
             j  == PosIn(tp, r.ec)
             a  == NodeAt(d, r.sc).data
             b  == NodeAt(d, r.ec).data
         IN  substring(a, r.so, Len(a))
               \o Concat([k \in 1..(j - i - 1) |-> NodeAt(d, tp[i + k]).data])
               \o substring(b, 0, r.eo)

(***************************************************************************)
(* TextHighlighter.getXPath.  The XPath string is kept as its parts: root  *)
(* is the id of the '//*[@id="..."]' form, or "" for '/html/body'; steps   *)
(* are the 'tag[position]' steps below the root.  Null stands for the      *)
(* TypeError of element.parentNode.childNodes on a parentless node.        *)
(***************************************************************************)
RECURSIVE getXPath(_, _)
getXPath(d, p) ==
    IF p = DocumentNode THEN Null
    ELSE LET element == NodeAt(d, p) IN
         IF element.id # "" THEN [root |-> element.id, steps |-> <<>>]
         ELSE IF p = <<>> THEN [root |-> "", steps |-> <<>>]
         ELSE LET siblings == NodeAt(d, Front(p)).kids
                  position == Cardinality({i \in 1..(Last(p) - 1) :
                                  /\ siblings[i].kind = "elem"
                                  /\ siblings[i].tag = element.tag})
                  up == getXPath(d, Front(p))
              IN  [up EXCEPT !.steps =
                      Append(@, [tag |-> element.tag, pos |-> position + 1])]

\* The child of the element at p that a step 'tag[pos]' selects, or NoNode.
StepFrom(d, p, step) ==
    LET ks  == NodeAt(d, p).kids
        idx == {i \in 1..Len(ks) : ks[i].kind = "elem" /\ ks[i].tag = step.tag}
        hit == {i \in idx : Cardinality({j \in idx : j <= i}) = step.pos}
    IN  IF hit = {} THEN NoNode ELSE Append(p, CHOOSE i \in hit : TRUE)

RECURSIVE Follow(_, _, _)
Follow(d, p, steps) ==
    IF p = NoNode \/ steps = <<>> THEN p
    ELSE Follow(d, StepFrom(d, p, Head(steps)), Tail(steps))

\* document.evaluate(xpath, document, null, FIRST_ORDERED_NODE_TYPE, null)
\*   .singleNodeValue: the first match in document order, or NoNode.
evaluate(d, xpath) ==
    LET all   == AllPaths(d)
        roots == IF xpath.root = "" THEN {<<>>}
                 ELSE {all[i] : i \in {j \in 1..Len(all) :
                          /\ NodeAt(d, all[j]).kind = "elem"
                          /\ NodeAt(d, all[j]).id = xpath.root}}
        found == {Follow(d, q, xpath.steps) : q \in roots} \ {NoNode}
    IN  IF found = {} THEN NoNode
        ELSE CHOOSE q \in found : \A q2 \in found : PosIn(all, q) <= PosIn(all, q2)

(***************************************************************************)
(* TextHighlighter.createAnchor                                            *)
(***************************************************************************)
createAnchor(d, range, text) ==
    LET startContainer == range.sc
        xpath == getXPath(d, IF startContainer # DocumentNode
                                  /\ IsTextAt(d, startContainer)
                             THEN Front(startContainer) ELSE startContainer)
    IN  IF xpath = Null THEN Null
        ELSE LET fullText == textContent(d, startContainer)
                 startOffset == range.so
                 endOffset == range.eo
             IN  [xpath |-> xpath,
                  startOffset |-> startOffset,
                  endOffset |-> endOffset,
                  prefix |-> substring(fullText, MaxOf(0, startOffset - ContextLen),
                                       startOffset),
                  suffix |-> substring(fullText, endOffset,
                                       MinOf(Len(fullText), endOffset + ContextLen)),
                  textContent |-> text]

(***************************************************************************)
(* TextHighlighter.findTextNode                                            *)
(***************************************************************************)
\* A field a stored record lacks reads as undefined.  Where a string is
\* expected (includes, indexOf, document.evaluate) undefined is converted to
\* the string "undefined", which no text of the pages contains and which as
\* an XPath selects the child elements named undefined; a property or a
\* method of undefined (.length, .slice) is a TypeError.
Undefined == <<"undefined">>

UndefinedXPath == [root |-> "", steps |-> <<[tag |-> "undefined", pos |-> 1]>>]

\* Lines 509-514 on a text node that includes anchor.textContent at index.
\* The || of line 512 reads anchor.suffix only when the prefix does not
\* match; .slice of a field the anchor lacks is a TypeError.
ContextOutcome(text, anchor, index) ==
    IF includes(substring(text, MaxOf(0, index - ContextLen), index),
                sliceLast(anchor.prefix, CheckLen))
    THEN "match"
    ELSE IF anchor.suffix = Undefined THEN "throw"
    ELSE IF includes(substring(text, index + Len(anchor.textContent),
                         MinOf(Len(text), index + Len(anchor.textContent) + ContextLen)),
                     sliceFirst(anchor.suffix, CheckLen))
    THEN "match"
    ELSE "miss"

\* Lines 505-515 on one text node: the node is returned ("match"), the
\* walk goes on ("miss"), or a TypeError is thrown ("throw": .length of a
\* missing textContent, .slice of a missing prefix or suffix).
NodeOutcome(text, anchor) ==
    IF ~includes(text, anchor.textContent) THEN "miss"
    ELSE IF Undefined \in {anchor.textContent, anchor.prefix} THEN "throw"
    ELSE ContextOutcome(text, anchor, indexOf(text, anchor.textContent))

\* The test of lines 505-515 on one text node.
NodeMatches(text, anchor) == NodeOutcome(text, anchor) = "match"

\* What findTextNode yields when its walk ends in a TypeError.
Thrown == <<-2>>

\* The outcomes of the text nodes, in the order of the walk.
Outcomes(d, tp, anchor) ==
    [i \in 1..Len(tp) |-> NodeOutcome(NodeAt(d, tp[i]).data, anchor)]

\* The first text node that matches or throws decides.
Decide(tp, outcome, decided) ==
    IF decided = {} THEN NoNode
    ELSE IF outcome[CHOOSE i \in decided : \A j \in decided : i <= j] = "throw"
    THEN Thrown
    ELSE tp[CHOOSE i \in decided : \A j \in decided : i <= j]

Walk(tp, outcome) ==
    Decide(tp, outcome, {i \in 1..Len(tp) : outcome[i] # "miss"})

WalkOver(d, tp, anchor) == Walk(tp, Outcomes(d, tp, anchor))

\* Lines 492-520
findTextNode(d, element, anchor) == WalkOver(d, TextPathsUnder(d, element), anchor)

(***************************************************************************)
(* Marker insertion and removal.                                           *)
(***************************************************************************)
\* range.surroundContents(span) for a range whose boundary points are in
\* text nodes.  It throws (ok = FALSE) when the range partially selects a
\* non-Text node, which here is when the two text nodes have different
\* parents.  Otherwise the start node keeps the text before the range, the
\* span receives the contents of the range and a new text node the text
\* after it; a collapsed range yields an empty span.
surroundContents(d, range, span) ==
    IF Front(range.sc) # Front(range.ec) THEN [ok |-> FALSE, doc |-> d]
    ELSE LET parent == Front(range.sc)
             ks == NodeAt(d, parent).kids
             i  == Last(range.sc)
             j  == Last(range.ec)
             a  == ks[i].data
             b  == ks[j].data
             inside ==
                 IF i = j
                 THEN IF range.so = range.eo THEN <<>>
                      ELSE <<Text(substring(a, range.so, range.eo))>>
                 ELSE <<Text(substring(a, range.so, Len(a)))>>
                        \o SubSeq(ks, i + 1, j - 1)
                        \o <<Text(substring(b, 0, range.eo))>>
             newKids ==
                 SubSeq(ks, 1, i - 1)
                   \o <<Text(substring(a, 0, range.so)),
                        [span EXCEPT !.kids = inside],
                        Text(substring(b, range.eo, Len(b)))>>
                   \o SubSeq(ks, j + 1, Len(ks))
         IN  [ok |-> TRUE, doc |-> SetKids(d, parent, newKids)]

\* TextHighlighter.applyHighlight: the error of surroundContents is caught
\* and logged, the document is then left as it was.
applyHighlight(d, range, highlight) ==
    LET r == surroundContents(d, range, MarkSpan(highlight, <<>>))
    IN  IF r.ok THEN r.doc ELSE d

\* document.querySelector('[data-highlight-id="..."]'): first in document order.
querySelector(d, highlightId) ==
    LET hits == SelectSeq(AllPaths(d), LAMBDA q :
                    NodeAt(d, q).kind = "elem" /\ NodeAt(d, q).hid = highlightId)
    IN  IF hits = <<>> THEN NoNode ELSE Head(hits)

\* Lines 643-647: the children of the mark take its place.
unwrap(d, mark) ==
    LET ks == NodeAt(d, Front(mark)).kids
        i  == Last(mark)
    IN  SetKids(d, Front(mark),
                SubSeq(ks, 1, i - 1) \o ks[i].kids \o SubSeq(ks, i + 1, Len(ks)))

(***************************************************************************)
(* TextHighlighter.restoreHighlight.  The result names what happened:      *)
(* outcome is "applied", "noElement", "noTextNode" or "caught" (an error   *)
(* thrown inside the try block: a record without anchor, an offset beyond  *)
(* the found node); threw says whether an error left the function.         *)
(***************************************************************************)
Outcome(d, outcome, threw) == [doc |-> d, outcome |-> outcome, threw |-> threw]

\* Lines 480-486 with the text node found.  range.setStart / range.setEnd
\* throw IndexSizeError for an offset beyond the node; setEnd before the
\* start moves the start to the end.
restoreRange(d, highlight, textNode, len, catches) ==
    IF highlight.anchor.startOffset > len \/ highlight.anchor.endOffset > len
    THEN Outcome(d, "caught", ~catches)
    ELSE Outcome(applyHighlight(d,
                     MkRange(textNode,
                             MinOf(highlight.anchor.startOffset,
                                   highlight.anchor.endOffset),
                             textNode, highlight.anchor.endOffset),
                     highlight),
                 "applied", FALSE)

\* Lines 476-486 with what findTextNode gave.
restoreInNode(d, highlight, textNode, catches) ==
    IF textNode = Thrown THEN Outcome(d, "caught", ~catches)
    ELSE IF textNode = NoNode THEN Outcome(d, "noTextNode", FALSE)
    ELSE restoreRange(d, highlight, textNode, Len(NodeAt(d, textNode).data), catches)

\* Lines 474-486 with what document.evaluate gave.
restoreInElement(d, highlight, element, catches) ==
    IF element = NoNode THEN Outcome(d, "noElement", FALSE)
    ELSE restoreInNode(d, highlight, findTextNode(d, element, highlight.anchor),
                       catches)

\* Lines 464-489; catches says whether the catch of line 487 is there.
\* highlight.anchor.xpath of a record without anchor is a TypeError.
restoreWith(d, highlight, catches) ==
    IF highlight.anchor = Null THEN Outcome(d, "caught", ~catches)
    ELSE restoreInElement(d, highlight, evaluate(d, highlight.anchor.xpath), catches)

\* restoreHighlight without its try/catch: an error thrown while the range
\* is built leaves the function.
restoreHighlightUncaught(d, highlight) == restoreWith(d, highlight, FALSE)

restoreHighlight(d, highlight) == restoreWith(d, highlight, TRUE)

\* The loop of restoreHighlights / checkForSharedHighlights over a list:
\* [doc, done, threw], done being the ids handed to restoreHighlight.  An
\* error leaving restoreHighlight ends the loop.
RECURSIVE restoreAll(_, _, _), restoreRest(_, _, _)
restoreAll(d, list, done) ==
    IF list = <<>> THEN [doc |-> d, done |-> done, threw |-> FALSE]
    ELSE restoreRest(restoreHighlight(d, Head(list)), list, done)

\* The loop after restoreHighlight has returned r for the head of the list.
restoreRest(r, list, done) ==
    IF r.threw
    THEN [doc |-> r.doc, done |-> Append(done, Head(list).id), threw |-> TRUE]
    ELSE restoreAll(r.doc, Tail(list), Append(done, Head(list).id))

(***************************************************************************)
(* URLs.  The text of a URL is the sequence of its pieces: the scheme,     *)
(* "//", the host, then a port, a path, a query and a fragment where it    *)
(* has them.                                                               *)
(***************************************************************************)
Schemes == {"http:", "https:"}
HostNames == {"g", "h"}
Ports == {":8080"}
PathNames == {"/", "/p"}
Queries == {"?q"}
Fragments == {"#f"}

Opt(S) == {<<>>} \cup {<<x>> : x \in S}

\* The urls a tab with a content script can show; the browser gives every
\* one of them a path.
Hrefs ==
    {<<scheme, "//", host>> \o port \o <<path>> \o query \o fragment :
        scheme \in Schemes, host \in HostNames, port \in Opt(Ports),
        path \in PathNames, query \in Opt(Queries), fragment \in Opt(Fragments)}

Home == <<"https:", "//", "h", "/">>

\* No url computed.
NoUrl == <<>>

Pieces(url, S) == SelectSeq(url, LAMBDA piece : piece \in S)

\* new URL(url): origin, pathname, search and hash of the text; Null stands
\* for the TypeError of a text that is no URL.
URL(url) ==
    IF Len(url) >= 3 /\ url[1] \in Schemes /\ url[2] = "//" /\ url[3] \in HostNames
    THEN [origin   |-> SubSeq(url, 1, 3) \o Pieces(url, Ports),
          pathname |-> IF Pieces(url, PathNames) = <<>> THEN <<"/">>
                       ELSE Pieces(url, PathNames),
          search   |-> Pieces(url, Queries),
          hash     |-> Pieces(url, Fragments)]
    ELSE Null

\* normalizeUrl that strips the fragment only.
normalizeUrlKeepingSearch(url) ==
    IF URL(url) = Null THEN url
    ELSE URL(url).origin \o URL(url).pathname \o URL(url).search

\* TextHighlighter.normalizeUrl, lines 254-262
normalizeUrl(url) ==
    IF URL(url) = Null THEN url ELSE URL(url).origin \o URL(url).pathname

\* PopupManager.normalizeUrl, popup.js lines 33-40
popupNormalizeUrl(url) ==
    IF URL(url) = Null THEN url ELSE URL(url).origin \o URL(url).pathname

(***************************************************************************)
(* State.                                                                  *)
(***************************************************************************)
VARIABLES
    origin,      \* the page as first served (the document anchors are encoded against)
    page,        \* the page as the server delivers it now
    doc,         \* the live DOM of the tab (the body), markers included
    store,       \* chrome.storage: the areas local and sync
    highlights,  \* TextHighlighter.highlights
    lastColor,   \* TextHighlighter.lastColor
    pc,          \* where init() is: the await it is suspended at, or "Ready"
    initApi,     \* the storage area getHighlights selected during init()
    attempted,   \* the ids restoreHighlights handed to restoreHighlight, in order
    ops,         \* the handler calls suspended at an await, by slot
    shareId,     \* whether the URL of the tab carries the parameter h_share
    started,     \* number of handler calls made so far
    lastCall,    \* the latest handler call and how it went
    reply,       \* what the sender of the latest runtime message has received
    exported,    \* the file the popup's export wrote, Null before
    backends,    \* the share records each backend host holds
    server,      \* the latest response of a backend, and the links handed out
    clipboard,   \* the share link the popup copied, Null before
    href,        \* window.location.href, which is the url of the tab
    currentUrl,  \* TextHighlighter.currentUrl
    popupUrl,    \* PopupManager.currentUrl, NoUrl while the popup is closed
    otherTab,    \* the StorageManager call the tab of the other page is suspended in
    popup        \* the call the popup is suspended in

\* The url of the tab and what is computed from it, and the calls made
\* outside the content script of the tab.
browser == <<href, currentUrl, popupUrl, otherTab, popup>>

\* The state of the content script and of chrome.storage.
contentScript == <<origin, page, doc, store, highlights, lastColor, pc, initApi,
                   attempted, ops, shareId, started, lastCall>>

\* The state outside the content script.
outside == <<reply, exported, backends, server, clipboard, browser>>

vars == <<origin, page, doc, store, highlights, lastColor, pc, initApi,
          attempted, ops, shareId, started, lastCall, reply, exported,
          backends, server, clipboard, href, currentUrl, popupUrl, otherTab, popup>>

Slots == {1, 2}

\* What the sender of a runtime message has in hand: nothing sent yet
\* ("none"), sent and not answered ("pending"), or the response.
Response(status, list) == [status |-> status, highlights |-> list]

NoReply == Response("none", <<>>)

\* The backends: README.md line 109 and storage.js line 201 name the first,
\* popup.js lines 316 and 342 the second.
Hosts == {"highlighter-phi.vercel.app", "localhost:3000"}

\* What the client of a backend has received before any response.
NoRes == [status |-> 0]

Idle == [op |-> "idle"]

NoHighlights == [u \in Urls |-> <<>>]

\* An area nothing was stored in: it has neither key.
EmptyArea == [highlights |-> Null, settings |-> Null]

\* The lastColor of a settings object that has no such key.
NoColor == ""

\* Line 136: the settings used when none are stored.
DefaultSettings == [lastColor |-> "yellow", useSync |-> FALSE]

\* Lines 35-37: the area getStorageAPI resolves to.
storageAPI(st) ==
    IF st.local.settings # Null /\ st.local.settings.useSync THEN "sync" ELSE "local"

\* Lines 46-47: result.highlights[url] of an area.
\* Lines 56 and 103-104: result.highlights || {}
allHighlights(st, api) ==
    IF st[api].highlights = Null THEN NoHighlights ELSE st[api].highlights

storedList(st, api, url) == allHighlights(st, api)[url]

\* The store with the list of the url replaced in an area.
withList(st, api, url, list) ==
    [st EXCEPT ![api].highlights = [allHighlights(st, api) EXCEPT ![url] = list]]

idsOf(list) == [i \in 1..Len(list) |-> list[i].id]

IdSet(list) == {list[i].id : i \in 1..Len(list)}

(***************************************************************************)
(* The selections a user can make in the document: every range inside one  *)
(* text node (collapsed ones included), and the whole document.            *)
(***************************************************************************)
DocumentRange == MkRange(DocumentNode, 0, DocumentNode, 1)

OffsetPairs(n) == {x \in (0..n) \X (0..n) : x[1] <= x[2]}

TextRanges(d) ==
    LET tp == TextPathsUnder(d, <<>>)
    IN  UNION {{MkRange(tp[i], x[1], tp[i], x[2]) :
                   x \in OffsetPairs(Len(NodeAt(d, tp[i]).data))}
               : i \in 1..Len(tp)}

Selections(d) == TextRanges(d) \cup {DocumentRange}

\* The ranges from a text node to a later one: a selection dragged over
\* element boundaries or over a marker.
CrossRanges(d) ==
    LET tp == TextPathsUnder(d, <<>>)
    IN  UNION {{MkRange(tp[x[1]], a, tp[x[2]], b) :
                   a \in 0..Len(NodeAt(d, tp[x[1]]).data),
                   b \in 0..Len(NodeAt(d, tp[x[2]]).data)}
               : x \in {y \in (1..Len(tp)) \X (1..Len(tp)) : y[1] < y[2]}}

AllSelections(d) == TextRanges(d) \cup CrossRanges(d)

(***************************************************************************)
(* The pages.                                                              *)
(***************************************************************************)
Body(kids) == Elem("body", "", kids)

\* <p>ab</p>
PageTiny == Body(<<Elem("p", "", <<Text(<<"a", "b">>)>>)>>)

\* <p>a b</p>
PageSimple == Body(<<Elem("p", "", <<Text(<<"a", " ", "b">>)>>)>>)

\* <p>a b</p><div id="m"><p>ab</p></div>
PageWithId ==
    Body(<<Elem("p", "", <<Text(<<"a", " ", "b">>)>>),
           Elem("div", "m", <<Elem("p", "", <<Text(<<"a", "b">>)>>)>>)>>)

\* <p>ba</p><p><b>ab</b>b</p>
PageNested ==
    Body(<<Elem("p", "", <<Text(<<"b", "a">>)>>),
           Elem("p", "", <<Elem("b", "", <<Text(<<"a", "b">>)>>),
                           Text(<<"b">>)>>)>>)

\* <div id="m"><p>ab</p></div><div id="m"><p>ab</p></div>: a page that uses
\* an id twice.
PageTwins ==
    Body(<<Elem("div", "m", <<Elem("p", "", <<Text(<<"a", "b">>)>>)>>),
           Elem("div", "m", <<Elem("p", "", <<Text(<<"a", "b">>)>>)>>)>>)

\* The paragraph a change of the served page inserts: <p>zaz<br>b</p>
Inserted ==
    Elem("p", "", <<Text(<<"z", "a", "z">>), Elem("br", "", <<>>), Text(<<"b">>)>>)

\* Where a change of the served page can insert a paragraph: as a child of
\* <body> or of a <div>, at any index.
InsertionPoints(d) ==
    LET all == AllPaths(d)
        blocks == {all[i] : i \in {j \in 1..Len(all) :
                      NodeAt(d, all[j]).tag \in {"body", "div"}}}
    IN  UNION {{<<q, k>> : k \in 1..(Len(NodeAt(d, q).kids) + 1)} : q \in blocks}

insertChild(d, parent, k, node) ==
    LET ks == NodeAt(d, parent).kids
    IN  SetKids(d, parent, SubSeq(ks, 1, k - 1) \o <<node>> \o SubSeq(ks, k, Len(ks)))

(***************************************************************************)
(* The initial state: the tab has just constructed its TextHighlighter,    *)
(* whose init() is suspended at its first await; storage is empty or holds *)
(* what highlighting on another page has left.                             *)
(***************************************************************************)
InitOn(pages, shares, areas, hrefs) ==
    /\ origin \in pages
    /\ shareId \in shares
    /\ page = origin
    /\ doc = origin
    /\ \E area \in areas : store = [local |-> area, sync |-> EmptyArea]
    /\ highlights = <<>>
    /\ lastColor = "yellow"
    /\ pc = "getSettings"
    /\ initApi = "local"
    /\ attempted = <<>>
    /\ ops = [s \in Slots |-> Idle]
    /\ started = 0
    /\ lastCall = [op |-> "constructor", outcome |-> ""]
    /\ reply = NoReply
    /\ exported = Null
    /\ backends = [host \in Hosts |-> {}]
    /\ server = [res |-> NoRes, issued |-> {}]
    /\ clipboard = Null
    /\ href \in hrefs
    /\ currentUrl = normalizeUrl(href)
    /\ popupUrl = NoUrl
    /\ otherTab = Idle
    /\ popup = Idle

InitWith(pages, shares, areas) == InitOn(pages, shares, areas, {Home})

(***************************************************************************)
(* TextHighlighter.init, one action per await.                             *)
(***************************************************************************)
\* Lines 235-236, then restoreHighlights up to the await of getStorageAPI.
initGetSettings ==
    /\ pc = "getSettings"
    /\ lastColor' = IF store.local.settings = Null THEN DefaultSettings.lastColor
                    ELSE IF store.local.settings.lastColor = NoColor THEN "yellow"
                    ELSE store.local.settings.lastColor
    /\ pc' = "getStorageAPI"
    /\ UNCHANGED <<outside, origin, shareId, page, doc, store, highlights, initApi, attempted, ops,
                   started, lastCall>>

\* Line 44, reached from line 432.
initGetStorageAPI ==
    /\ pc = "getStorageAPI"
    /\ initApi' = storageAPI(store)
    /\ pc' = "getHighlights"
    /\ UNCHANGED <<outside, origin, shareId, page, doc, store, highlights, lastColor, attempted, ops,
                   started, lastCall>>

\* restoreHighlights that forgets the highlights it could not restore: the
\* stored list is cut down to the highlights that got a marker.
restoreHighlightsPruning ==
    /\ pc = "getHighlights"
    /\ LET list == storedList(store, initApi, Url)
           r    == restoreAll(doc, list, <<>>)
           kept == SelectSeq(list, LAMBDA h : MarksOf(r.doc, h.id) # <<>>)
       IN  /\ highlights' = kept
           /\ store' = withList(store, initApi, Url, kept)
           /\ doc' = r.doc
           /\ attempted' = r.done
           /\ pc' = IF r.threw THEN "Failed"
                   ELSE IF shareId THEN "fetchSharedHighlights" ELSE "Ready"
    /\ UNCHANGED <<outside, origin, shareId, page, lastColor, initApi, ops, started, lastCall>>

\* Lines 45-47 and 432-436, then checkForSharedHighlights up to its fetch;
\* without a share id in the URL init runs on to its end.
restoreHighlights ==
    /\ pc = "getHighlights"
    /\ LET list == storedList(store, initApi, Url)
           r    == restoreAll(doc, list, <<>>)
       IN  /\ highlights' = list
           /\ doc' = r.doc
           /\ attempted' = r.done
           /\ pc' = IF r.threw THEN "Failed"
                   ELSE IF shareId THEN "fetchSharedHighlights" ELSE "Ready"
    /\ UNCHANGED <<outside, origin, shareId, page, store, lastColor, initApi, ops, started, lastCall>>

\* Lines 335-342: the record createHighlight builds.
newHighlight(id, selectedText, color, now, anchor) ==
    [id |-> id, text |-> selectedText, color |-> color, note |-> "",
     timestamp |-> now, anchor |-> anchor]

\* The highlight another user shared for this page: made on the page as
\* first served, from the text of its first text node.
SharedHighlight(d) ==
    LET node  == Head(TextPathsUnder(d, <<>>))
        range == MkRange(node, 0, node, Len(NodeAt(d, node).data))
        text  == trim(toString(d, range))
    IN  newHighlight(1, text, "green", 0, createAnchor(d, range, text))

findOneOfAny(collection, id) ==
    IF collection # {}
    THEN LET data == CHOOSE r \in collection : TRUE
         IN  [url |-> data.url, highlights |-> data.highlights]
    ELSE Null

\* popup.js lines 518-529: Highlight.findOne({shareId}) and the url and
\* highlights of the document found, Null without one.
findOne(collection, id) ==
    IF \E r \in collection : r.shareId = id
    THEN LET data == CHOOSE r \in collection : r.shareId = id
         IN  [url |-> data.url, highlights |-> data.highlights]
    ELSE Null

\* The record a backend holds under a share id, Null without one
\* (GET /api/highlights/:id, popup.js lines 516-532).
recordOf(host, id) == findOne(backends[host], id)

\* Lines 200-208: the record the backend of line 201 holds, null when the
\* fetch fails or the backend answers 404.
fetchSharedHighlights(id) == recordOf("highlighter-phi.vercel.app", id)

\* What fetchSharedHighlights can return.  For the link the popup copied:
\* what the backend answers.  For a link from elsewhere: null (the fetch
\* failed), or the shared record.
SharedResponses(d) ==
    IF clipboard # Null THEN {fetchSharedHighlights(clipboard.shareId)}
    ELSE {Null, [url |-> Url, highlights |-> <<SharedHighlight(d)>>]}

\* checkForSharedHighlights that applies every shared highlight, also one
\* whose id this.highlights has.
checkForSharedHighlightsUnfiltered ==
    /\ pc = "fetchSharedHighlights"
    /\ \E data \in SharedResponses(origin) :
          IF data = Null
          THEN /\ pc' = "Ready"
               /\ doc' = doc
          ELSE LET r == restoreAll(doc, data.highlights, <<>>)
               IN  /\ doc' = r.doc
                   /\ pc' = IF r.threw THEN "Failed" ELSE "Ready"
    /\ UNCHANGED <<outside, origin, shareId, page, store, highlights, lastColor, initApi, attempted,
                   ops, started, lastCall>>

\* Lines 445-459, from the return of the fetch; then lines 245-251.
checkForSharedHighlights ==
    /\ pc = "fetchSharedHighlights"
    /\ \E data \in SharedResponses(origin) :
          IF data = Null
          THEN /\ pc' = "Ready"
               /\ doc' = doc
          ELSE LET fresh == SelectSeq(data.highlights,
                                LAMBDA h : h.id \notin IdSet(highlights))
                   r == restoreAll(doc, fresh, <<>>)
               IN  /\ doc' = r.doc
                   /\ pc' = IF r.threw THEN "Failed" ELSE "Ready"
    /\ UNCHANGED <<outside, origin, shareId, page, store, highlights, lastColor, initApi, attempted,
                   ops, started, lastCall>>

(***************************************************************************)
(* Handler calls.  A call runs to its first await in one step; each later  *)
(* step is the completion of the storage request it is suspended at,       *)
(* followed by the code up to the next await.                              *)
(***************************************************************************)
Call(op, h, id, note) ==
    [op |-> op, pc |-> "get.api", h |-> h, id |-> id, note |-> note,
     api |-> "local", list |-> <<>>, all |-> NoHighlights, settings |-> Null,
     message |-> FALSE]

FreeSlot == CHOOSE s \in Slots : ops[s] = Idle /\ \A t \in Slots : ops[t] = Idle => s <= t

\* A handler can be called once init has registered the listeners.  With
\* concurrent = FALSE no call is made while another one is suspended.
CanCall(concurrent, limit) ==
    /\ pc = "Ready"
    /\ started < limit
    /\ \E s \in Slots : ops[s] = Idle
    /\ concurrent \/ \A s \in Slots : ops[s] = Idle

\* selection.toString() without the trim()
selectedTextOfUntrimmed(d, selection) == toString(d, selection)

\* Line 326
selectedTextOf(d, selection) == trim(toString(d, selection))

\* Lines 325-349, to the await of getStorageAPI below addHighlight.
createHighlight(selection, color, id, now) ==
    LET range == selection
        selectedText == selectedTextOf(doc, selection)
        anchor == createAnchor(doc, range, selectedText)
        highlight == newHighlight(id, selectedText, color, now, anchor)
    IN  /\ started' = started + 1
        /\ IF selectedText = <<>>
           THEN /\ lastCall' = [op |-> "createHighlight", outcome |-> "emptySelection"]
                /\ UNCHANGED <<doc, highlights, ops>>
           ELSE IF anchor = Null
           THEN /\ lastCall' = [op |-> "createHighlight", outcome |-> "noAnchor"]
                /\ UNCHANGED <<doc, highlights, ops>>
           ELSE /\ lastCall' = [op |-> "createHighlight", outcome |-> "started"]
                /\ doc' = applyHighlight(doc, range, highlight)
                /\ highlights' = Append(highlights, highlight)
                /\ ops' = [ops EXCEPT ![FreeSlot] =
                              Call("createHighlight", highlight, id, "")]
        /\ UNCHANGED <<outside, origin, shareId, page, store, lastColor, pc, initApi, attempted>>

\* highlights with the note of the first record of that id replaced
\* (line 607: highlight.note = note, on the record find returned).
withNote(list, highlightId, note) ==
    LET hits == {i \in 1..Len(list) : list[i].id = highlightId}
    IN  IF hits = {} THEN list
        ELSE [list EXCEPT ![CHOOSE i \in hits : \A j \in hits : i <= j].note = note]

\* Lines 602-608, to the await of getStorageAPI below updateHighlight.
\* note = Null is the prompt cancelled.
editNote(highlightId, note) ==
    /\ started' = started + 1
    /\ IF highlightId \notin IdSet(highlights)
       THEN /\ lastCall' = [op |-> "editNote", outcome |-> "notFound"]
            /\ UNCHANGED <<highlights, ops>>
       ELSE IF note = Null
       THEN /\ lastCall' = [op |-> "editNote", outcome |-> "cancelled"]
            /\ UNCHANGED <<highlights, ops>>
       ELSE /\ lastCall' = [op |-> "editNote", outcome |-> "started"]
            /\ highlights' = withNote(highlights, highlightId, note.text)
            /\ ops' = [ops EXCEPT ![FreeSlot] =
                          Call("editNote", Null, highlightId, note.text)]
    /\ UNCHANGED <<outside, origin, shareId, page, doc, store, lastColor, pc, initApi, attempted>>

\* What prompt() can return.
Prompts == {Null} \cup {[text |-> n] : n \in Notes}

\* Who calls a handler: the page's own listeners (the action menu, the
\* keyboard) or handleMessage, which answers the sender afterwards.
Callers == {"page", "message"}

\* Lines 641-651, to the await of getStorageAPI below deleteHighlight.
removeHighlight(highlightId, caller) ==
    /\ started' = started + 1
    /\ LET mark == querySelector(doc, highlightId)
       IN  doc' = IF mark # NoNode THEN unwrap(doc, mark) ELSE doc
    /\ lastCall' = [op |-> "removeHighlight", outcome |-> "started"]
    /\ ops' = [ops EXCEPT ![FreeSlot] =
                  [Call("removeHighlight", Null, highlightId, "")
                      EXCEPT !.message = (caller = "message")]]
    /\ reply' = IF caller = "message" THEN Response("pending", <<>>) ELSE reply
    /\ UNCHANGED <<browser, exported, backends, server, clipboard, origin, shareId, page, store,
                   highlights, lastColor, pc, initApi, attempted>>

\* Lines 699-705: every marker of the document is unwrapped.
RECURSIVE unwrapAll(_)
unwrapAll(d) ==
    LET marks == MarkPaths(d)
    IN  IF marks = <<>> THEN d ELSE unwrapAll(unwrap(d, marks[1]))

\* Lines 698-708 and 94-95, to the await of getStorageAPI below
\* saveHighlights(url, []).  Only handleMessage calls it.
deleteAllHighlights ==
    /\ started' = started + 1
    /\ doc' = unwrapAll(doc)
    /\ lastCall' = [op |-> "deleteAllHighlights", outcome |-> "started"]
    /\ ops' = [ops EXCEPT ![FreeSlot] =
                  [Call("deleteAllHighlights", Null, NoId, "")
                      EXCEPT !.pc = "save.api", !.list = <<>>, !.message = TRUE]]
    /\ reply' = Response("pending", <<>>)
    /\ UNCHANGED <<browser, exported, backends, server, clipboard, origin, shareId, page, store,
                   highlights, lastColor, pc, initApi, attempted>>

\* A message to the tab.
Request(action, highlightId, color) ==
    [action |-> action, highlightId |-> highlightId, color |-> color]

\* The messages the popup sends (popup.js lines 47, 250, 266 and 285), for
\* the highlights it lists.
PopupRequests ==
    {Request(a, NoId, "") : a \in {"getHighlights", "deleteAllHighlights"}}
       \cup {Request(a, id, "") : a \in {"scrollToHighlight", "deleteHighlight"},
                                  id \in 1..started}

\* The messages the service worker sends when an entry of the context menu
\* is clicked (README.md lines 168-178).
ContextMenuRequests == {Request("highlightSelection", NoId, c) : c \in Colors}

Requests == PopupRequests \cup ContextMenuRequests

\* Lines 657-681, to the first await.  Line 668 and line 673 answer once
\* the handler they await has finished.
handleMessage(request) ==
    \/ /\ request.action = "deleteHighlight"
       /\ removeHighlight(request.highlightId, "message")
    \/ /\ request.action = "deleteAllHighlights"
       /\ deleteAllHighlights
    \/ /\ request.action \notin {"deleteHighlight", "deleteAllHighlights"}
       /\ reply' = CASE request.action = "getHighlights" ->
                           Response("highlights", highlights)
                      [] request.action = "scrollToHighlight" ->
                           Response("success", <<>>)
                      [] OTHER -> Response("Unknown action", <<>>)
       /\ started' = started + 1
       /\ lastCall' = [op |-> "handleMessage", outcome |-> request.action]
       /\ UNCHANGED <<browser, exported, backends, server, clipboard, origin, shareId, page, doc, store,
                      highlights, lastColor, pc, initApi, attempted, ops>>

(***************************************************************************)
(* StorageManager, one action per await.  The op in slot s is suspended at *)
(* ops[s].pc:                                                              *)
(*   get.api    getStorageAPI called by getHighlights      (lines 35, 44)  *)
(*   get.read   storage.get in getHighlights               (line 45)       *)
(*   save.api   getStorageAPI called by saveHighlights     (lines 35, 54)  *)
(*   save.read  storage.get in saveHighlights              (line 55)       *)
(*   save.write storage.set in saveHighlights              (line 58)       *)
(*   resume     the caller of the StorageManager function continues        *)
(*   settings.read / settings.write   updateSettings       (lines 135, 146)*)
(***************************************************************************)
Finish(s) == ops' = [ops EXCEPT ![s] = Idle]

getStorageAPI(s) ==
    /\ ops[s] # Idle
    /\ ops[s].pc \in {"get.api", "save.api"}
    /\ ops' = [ops EXCEPT ![s].api = storageAPI(store),
                          ![s].pc = IF ops[s].pc = "get.api" THEN "get.read"
                                    ELSE "save.read"]
    /\ UNCHANGED <<outside, origin, shareId, page, doc, store, highlights, lastColor, pc, initApi,
                   attempted, started, lastCall>>

\* Lines 65-67: the stored list is read and the highlight pushed onto it.
addHighlight(s) ==
    /\ ops[s] # Idle
    /\ ops[s].op = "createHighlight" /\ ops[s].pc = "get.read"
    /\ ops' = [ops EXCEPT ![s].list = Append(storedList(store, ops[s].api, Url), ops[s].h),
                          ![s].pc = "save.api"]
    /\ UNCHANGED <<outside, origin, shareId, page, doc, store, highlights, lastColor, pc, initApi,
                   attempted, started, lastCall>>

\* Lines 74-79: without a record of that id nothing is saved.
updateHighlight(s) ==
    /\ ops[s] # Idle
    /\ ops[s].op = "editNote" /\ ops[s].pc = "get.read"
    /\ LET list == storedList(store, ops[s].api, Url)
       IN  ops' = IF ops[s].id \in IdSet(list)
                  THEN [ops EXCEPT ![s].list = withNote(list, ops[s].id, ops[s].note),
                                   ![s].pc = "save.api"]
                  ELSE [ops EXCEPT ![s].pc = "resume"]
    /\ UNCHANGED <<outside, origin, shareId, page, doc, store, highlights, lastColor, pc, initApi,
                   attempted, started, lastCall>>

\* list.filter(h => h.id !== highlightId)
without(list, highlightId) == SelectSeq(list, LAMBDA h : h.id # highlightId)

\* Lines 86-88
deleteHighlight(s) ==
    /\ ops[s] # Idle
    /\ ops[s].op = "removeHighlight" /\ ops[s].pc = "get.read"
    /\ ops' = [ops EXCEPT ![s].list = without(storedList(store, ops[s].api, Url),
                                              ops[s].id),
                          ![s].pc = "save.api"]
    /\ UNCHANGED <<outside, origin, shareId, page, doc, store, highlights, lastColor, pc, initApi,
                   attempted, started, lastCall>>

\* Lines 55-57: all stored lists are read and the page's list replaced.
saveHighlightsRead(s) ==
    /\ ops[s] # Idle
    /\ ops[s].pc = "save.read"
    /\ ops' = [ops EXCEPT ![s].all = [allHighlights(store, ops[s].api)
                                          EXCEPT ![Url] = ops[s].list],
                          ![s].pc = "save.write"]
    /\ UNCHANGED <<outside, origin, shareId, page, doc, store, highlights, lastColor, pc, initApi,
                   attempted, started, lastCall>>

\* Line 58
saveHighlightsWrite(s) ==
    /\ ops[s] # Idle
    /\ ops[s].pc = "save.write"
    /\ store' = [store EXCEPT ![ops[s].api].highlights = ops[s].all]
    /\ ops' = [ops EXCEPT ![s].pc = "resume"]
    /\ UNCHANGED <<outside, origin, shareId, page, doc, highlights, lastColor, pc, initApi, attempted,
                   started, lastCall>>

\* Lines 351-353: createHighlight continues after addHighlight.
createHighlightResume(s) ==
    /\ ops[s] # Idle
    /\ ops[s].op = "createHighlight" /\ ops[s].pc = "resume"
    /\ lastColor' = ops[s].h.color
    /\ ops' = [ops EXCEPT ![s].pc = "settings.read"]
    /\ UNCHANGED <<outside, origin, shareId, page, doc, store, highlights, pc, initApi, attempted,
                   started, lastCall>>

\* Lines 144-145, called with {lastColor: color}
updateSettingsRead(s) ==
    /\ ops[s] # Idle
    /\ ops[s].pc = "settings.read"
    /\ LET settings == IF store.local.settings = Null THEN DefaultSettings
                       ELSE store.local.settings
       IN  ops' = [ops EXCEPT ![s].settings = [settings EXCEPT !.lastColor = ops[s].h.color],
                              ![s].pc = "settings.write"]
    /\ UNCHANGED <<outside, origin, shareId, page, doc, store, highlights, lastColor, pc, initApi,
                   attempted, started, lastCall>>

\* Line 146, and the end of createHighlight.
updateSettingsWrite(s) ==
    /\ ops[s] # Idle
    /\ ops[s].pc = "settings.write"
    /\ store' = [store EXCEPT !.local.settings = ops[s].settings]
    /\ Finish(s)
    /\ UNCHANGED <<outside, origin, shareId, page, doc, highlights, lastColor, pc, initApi, attempted,
                   started, lastCall>>

\* mark.dataset.note = note on the element at path mark
setNote(d, mark, note) ==
    IF Len(mark) = 0 THEN [d EXCEPT !.note = note]
    ELSE SetKids(d, Front(mark),
                 [NodeAt(d, Front(mark)).kids EXCEPT ![Last(mark)].note = note])

\* Lines 610-614: editNote continues after updateHighlight.
editNoteResume(s) ==
    /\ ops[s] # Idle
    /\ ops[s].op = "editNote" /\ ops[s].pc = "resume"
    /\ LET mark == querySelector(doc, ops[s].id)
       IN  doc' = IF mark # NoNode THEN setNote(doc, mark, ops[s].note) ELSE doc
    /\ Finish(s)
    /\ UNCHANGED <<outside, origin, shareId, page, store, highlights, lastColor, pc, initApi, attempted,
                   started, lastCall>>

\* removeHighlight that answers without line 654: this.highlights keeps the
\* record.
removeHighlightResumeKeeping(s) ==
    /\ ops[s] # Idle
    /\ ops[s].op = "removeHighlight" /\ ops[s].pc = "resume"
    /\ reply' = IF ops[s].message THEN Response("success", <<>>) ELSE reply
    /\ Finish(s)
    /\ UNCHANGED <<browser, exported, backends, server, clipboard, origin, shareId, page, doc, store,
                   highlights, lastColor, pc, initApi, attempted, started, lastCall>>

\* Line 654: removeHighlight continues after deleteHighlight.
removeHighlightResume(s) ==
    /\ ops[s] # Idle
    /\ ops[s].op = "removeHighlight" /\ ops[s].pc = "resume"
    /\ highlights' = without(highlights, ops[s].id)
    /\ reply' = IF ops[s].message THEN Response("success", <<>>) ELSE reply
    /\ Finish(s)
    /\ UNCHANGED <<browser, exported, backends, server, clipboard, origin, shareId, page, doc, store,
                   lastColor, pc, initApi, attempted, started, lastCall>>

\* Lines 708-709 and 674: deleteAllHighlights continues after
\* saveHighlights, and handleMessage answers.
deleteAllHighlightsResume(s) ==
    /\ ops[s] # Idle
    /\ ops[s].op = "deleteAllHighlights" /\ ops[s].pc = "resume"
    /\ highlights' = <<>>
    /\ reply' = Response("success", <<>>)
    /\ Finish(s)
    /\ UNCHANGED <<browser, exported, backends, server, clipboard, origin, shareId, page, doc, store,
                   lastColor, pc, initApi, attempted, started, lastCall>>

\* chrome.storage rejects the set of line 58 or line 146 (the quota is
\* exceeded, the disk is full).  No caller catches: the handler call ends
\* where it is, and handleMessage never calls sendResponse.
storageSetRejects(s) ==
    /\ ops[s] # Idle
    /\ ops[s].pc \in {"save.write", "settings.write"}
    /\ Finish(s)
    /\ UNCHANGED <<outside, origin, shareId, page, doc, store, highlights, lastColor, pc,
                   initApi, attempted, started, lastCall>>

\* Line 249: the listener returned true, so the channel stays open until
\* sendResponse is called or collected; when it is collected unanswered,
\* the sender's sendMessage fails.
messagePortClosed ==
    /\ reply.status = "pending"
    /\ \A s \in Slots : IF ops[s] = Idle THEN TRUE ELSE ~ops[s].message
    /\ reply' = Response("port closed", <<>>)
    /\ UNCHANGED <<browser, exported, backends, server, clipboard, origin, shareId, page, doc, store,
                   highlights, lastColor, pc, initApi, attempted, ops, started, lastCall>>

(***************************************************************************)
(* The popup's export and import (popup.js lines 358-403; StorageManager's *)
(* exportData and importData, lines 110-128, do the same).                 *)
(***************************************************************************)
\* storage.get(null) followed by JSON.stringify and, at the import,
\* JSON.parse: the object with the keys the area has.
Dump(area) ==
    [k \in {key \in {"highlights", "settings"} : area[key] # Null} |-> area[k]]

\* storage.set(data) on an area: the keys of data are replaced, the others
\* stay.
set(area, data) ==
    [k \in {"highlights", "settings"} |->
        IF k \in DOMAIN data THEN data[k] ELSE area[k]]

\* popup.js lines 360-365, the file of lines 367-373.
exportData ==
    /\ pc = "Ready" /\ \A s \in Slots : ops[s] = Idle
    /\ exported' = Dump(store[storageAPI(store)])
    /\ exported' # exported
    /\ UNCHANGED <<browser, reply, backends, server, clipboard, origin, shareId, page, doc, store,
                   highlights, lastColor, pc, initApi, attempted, ops, started, lastCall>>

\* The fields of an anchor a record of a file can lack.
AnchorFields == {"xpath", "prefix", "suffix", "textContent"}

\* The record without its anchor, or with an anchor lacking one field.
Damaged(h, field) ==
    CASE field = "anchor"      -> [h EXCEPT !.anchor = Null]
      [] field = "xpath"       -> [h EXCEPT !.anchor.xpath = UndefinedXPath]
      [] field = "prefix"      -> [h EXCEPT !.anchor.prefix = Undefined]
      [] field = "suffix"      -> [h EXCEPT !.anchor.suffix = Undefined]
      [] field = "textContent" -> [h EXCEPT !.anchor.textContent = Undefined]

Malformed(h) ==
    \/ h.anchor = Null
    \/ /\ h.anchor # Null
       /\ \/ h.anchor.xpath = UndefinedXPath
          \/ Undefined \in {h.anchor.prefix, h.anchor.suffix, h.anchor.textContent}

\* The files the user can pick for an import: the file exported before, or
\* a dump of the area edited by hand so that one record of the page has
\* lost its anchor or a field of it.
Files ==
    LET api  == storageAPI(store)
        list == storedList(store, api, Url)
        good == {i \in 1..Len(list) : ~Malformed(list[i])}
    IN  (IF exported = Null THEN {} ELSE {exported})
           \cup {Dump(withList(store, api, Url,
                               [list EXCEPT ![i] = Damaged(list[i], f)])[api])
                    : i \in good, f \in AnchorFields \cup {"anchor"}}

\* popup.js lines 383-391
importData(data) ==
    /\ started' = started + 1
    /\ store' = [store EXCEPT ![storageAPI(store)] = set(@, data)]
    /\ lastCall' = [op |-> "importData", outcome |-> ""]
    /\ UNCHANGED <<outside, origin, shareId, page, doc, highlights, lastColor, pc,
                   initApi, attempted, ops>>

(***************************************************************************)
(* Sharing: the popup posts the highlights of the page and copies a link;  *)
(* another user opens the link.                                            *)
(***************************************************************************)
\* popup.js lines 297-356, the POST answered by lines 492-510 of the
\* backend: the highlights the popup lists are stored under a new id and
\* the link is copied.  The popup lists what getHighlights answered.
handleShare(id) ==
    /\ pc = "Ready" /\ \A s \in Slots : ops[s] = Idle
    /\ highlights # <<>>
    /\ clipboard = Null
    /\ backends' = [backends EXCEPT !["localhost:3000"] =
                       {[shareId |-> id, url |-> Url, highlights |-> highlights]}]
    /\ clipboard' = [host |-> "localhost:3000", shareId |-> id]
    /\ UNCHANGED <<browser, server, reply, exported, origin, shareId, page, doc, store,
                   highlights, lastColor, pc, initApi, attempted, ops, started, lastCall>>

\* Another user, who has highlighted nothing, opens the copied link: the
\* backend of the link redirects to the page with ?h_share=<id> (popup.js
\* lines 538-554), and their tab constructs its TextHighlighter (lines
\* 718-724 and 222-231).
openSharedLink ==
    /\ clipboard # Null
    /\ ~shareId
    /\ \A s \in Slots : ops[s] = Idle
    /\ recordOf(clipboard.host, clipboard.shareId) # Null
    /\ shareId' = TRUE
    /\ store' = [local |-> EmptyArea, sync |-> EmptyArea]
    /\ page' = origin
    /\ doc' = origin
    /\ highlights' = <<>>
    /\ lastColor' = "yellow"
    /\ pc' = "getSettings"
    /\ initApi' = "local"
    /\ attempted' = <<>>
    /\ ops' = [s \in Slots |-> Idle]
    /\ lastCall' = [op |-> "constructor", outcome |-> ""]
    /\ UNCHANGED <<outside, origin, started>>

(***************************************************************************)
(* The tab of the other page.  Its content script calls the StorageManager *)
(* with the key of that page; the call is suspended at otherTab.pc, named  *)
(* as for the calls of this tab.                                           *)
(***************************************************************************)
\* Lines 349, 651 and 707: addHighlight, deleteHighlight or
\* deleteAllHighlights is called with the url of the other page.
otherTabCalls(op, h, id) ==
    /\ otherTab = Idle
    /\ started' = started + 1
    /\ otherTab' = [Call(op, h, id, "") EXCEPT
                       !.pc = IF op = "deleteAllHighlights" THEN "save.api"
                              ELSE "get.api"]
    /\ UNCHANGED <<origin, page, doc, store, highlights, lastColor, pc, initApi,
                   attempted, ops, shareId, lastCall, reply, exported, backends, server,
                   clipboard, href, currentUrl, popupUrl, popup>>

\* Lines 35-37, called from line 44 or line 54.
otherTabGetStorageAPI ==
    /\ otherTab # Idle
    /\ otherTab.pc \in {"get.api", "save.api"}
    /\ otherTab' = [otherTab EXCEPT !.api = storageAPI(store),
                                    !.pc = IF otherTab.pc = "get.api" THEN "get.read"
                                           ELSE "save.read"]
    /\ UNCHANGED <<contentScript, reply, exported, backends, server, clipboard, href,
                   currentUrl, popupUrl, popup>>

\* Lines 45-47, then lines 66 or 87.
otherTabGetHighlights ==
    /\ otherTab # Idle
    /\ otherTab.pc = "get.read"
    /\ LET list == storedList(store, otherTab.api, OtherUrl)
       IN  otherTab' = [otherTab EXCEPT
                           !.list = IF otherTab.op = "addHighlight"
                                    THEN Append(list, otherTab.h)
                                    ELSE without(list, otherTab.id),
                           !.pc = "save.api"]
    /\ UNCHANGED <<contentScript, reply, exported, backends, server, clipboard, href,
                   currentUrl, popupUrl, popup>>

\* Lines 55-57
otherTabSaveHighlightsRead ==
    /\ otherTab # Idle
    /\ otherTab.pc = "save.read"
    /\ otherTab' = [otherTab EXCEPT
                       !.all = [allHighlights(store, otherTab.api)
                                   EXCEPT ![OtherUrl] = otherTab.list],
                       !.pc = "save.write"]
    /\ UNCHANGED <<contentScript, reply, exported, backends, server, clipboard, href,
                   currentUrl, popupUrl, popup>>

\* Line 58
otherTabSaveHighlightsWrite ==
    /\ otherTab # Idle
    /\ otherTab.pc = "save.write"
    /\ store' = [store EXCEPT ![otherTab.api].highlights = otherTab.all]
    /\ otherTab' = Idle
    /\ UNCHANGED <<origin, page, doc, highlights, lastColor, pc, initApi,
                   attempted, ops, shareId, started, lastCall, reply, exported,
                   backends, server, clipboard, href, currentUrl, popupUrl, popup>>

(***************************************************************************)
(* The popup's sync checkbox (popup.js lines 412-424), one action per      *)
(* await.  popup.before is the lists getHighlights returned when the       *)
(* checkbox was clicked.                                                   *)
(***************************************************************************)
\* The call, to the await of line 413.
updateSyncSetting(useSync) ==
    /\ popup = Idle
    /\ started' = started + 1
    /\ popup' = [op |-> "updateSyncSetting", pc |-> "settings.write",
                 useSync |-> useSync, data |-> <<>>,
                 before |-> allHighlights(store, storageAPI(store))]
    /\ lastCall' = [op |-> "updateSyncSetting", outcome |-> "started"]
    /\ UNCHANGED <<origin, page, doc, store, highlights, lastColor, pc, initApi,
                   attempted, ops, shareId, reply, exported, backends, server, clipboard,
                   href, currentUrl, popupUrl, otherTab>>

\* Lines 413-415: the stored settings become {useSync}; without useSync
\* the function ends with the alert of line 423.
updateSyncSettingSet ==
    /\ popup # Idle
    /\ popup.pc = "settings.write"
    /\ store' = [store EXCEPT !.local.settings =
                    [lastColor |-> NoColor, useSync |-> popup.useSync]]
    /\ popup' = IF popup.useSync THEN [popup EXCEPT !.pc = "local.read"] ELSE Idle
    /\ UNCHANGED <<origin, page, doc, highlights, lastColor, pc, initApi,
                   attempted, ops, shareId, started, lastCall, reply, exported,
                   backends, server, clipboard, href, currentUrl, popupUrl, otherTab>>

\* Line 419: chrome.storage.local.get(['highlights'])
updateSyncSettingGet ==
    /\ popup # Idle
    /\ popup.pc = "local.read"
    /\ popup' = [popup EXCEPT
                    !.data = [k \in {key \in {"highlights"} :
                                       store.local[key] # Null} |-> store.local[k]],
                    !.pc = "sync.write"]
    /\ UNCHANGED <<contentScript, reply, exported, backends, server, clipboard, href,
                   currentUrl, popupUrl, otherTab>>

\* Line 420: chrome.storage.sync.set(localData), then the alert.
updateSyncSettingCopy ==
    /\ popup # Idle
    /\ popup.pc = "sync.write"
    /\ store' = [store EXCEPT !.sync = set(@, popup.data)]
    /\ popup' = Idle
    /\ UNCHANGED <<origin, page, doc, highlights, lastColor, pc, initApi,
                   attempted, ops, shareId, started, lastCall, reply, exported,
                   backends, server, clipboard, href, currentUrl, popupUrl, otherTab>>

(***************************************************************************)
(* The share backend (popup.js lines 460-560): an express server over one  *)
(* MongoDB collection, backends[host].  nanoid(10) is any of ShareIds.     *)
(* server.issued is the ids the POSTs have answered, each with what the    *)
(* latest POST that answered it had posted.                                *)
(***************************************************************************)
ShareIds == {1, 2}

\* The JSON bodies posted: url and highlights are a string and an array,
\* or are missing.
Bodies ==
    {[k \in keys |-> IF k = "url" THEN url ELSE list] :
        keys \in SUBSET {"url", "highlights"},
        url \in {"", Url},
        list \in {<<>>, <<SharedHighlight(PageTiny)>>}}

\* Line 495: !url || !highlights.  An empty string is falsy, an empty
\* array is not.
Missing(body) ==
    IF {"url", "highlights"} \subseteq DOMAIN body THEN body.url = "" ELSE TRUE

\* Lines 492-510.  save() throws when the unique index of line 476 already
\* holds the id, and the catch answers 500.
postApiHighlights(host, body, id) ==
    /\ started' = started + 1
    /\ IF Missing(body)
       THEN /\ server' = [server EXCEPT
                             !.res = [status |-> 400,
                                      error |-> "Missing url or highlights"]]
            /\ UNCHANGED backends
       ELSE IF \E r \in backends[host] : r.shareId = id
       THEN /\ server' = [server EXCEPT
                             !.res = [status |-> 500,
                                      error |-> "Failed to save highlights"]]
            /\ UNCHANGED backends
       ELSE /\ backends' = [backends EXCEPT ![host] =
                               @ \cup {[shareId |-> id, url |-> body.url,
                                        highlights |-> body.highlights]}]
            /\ server' = [res |-> [status |-> 200, id |-> id],
                          issued |-> {l \in server.issued :
                                        l.host # host \/ l.id # id} \cup
                                       {[host |-> host, id |-> id, url |-> body.url,
                                         highlights |-> body.highlights]}]
    /\ UNCHANGED <<origin, page, doc, store, highlights, lastColor, pc, initApi,
                   attempted, ops, shareId, lastCall, reply, exported, clipboard,
                   browser>>

\* Lines 516-532
getApiHighlights(host, id) ==
    /\ started' = started + 1
    /\ server' = [server EXCEPT
                     !.res = IF findOne(backends[host], id) = Null
                             THEN [status |-> 404, error |-> "Highlights not found"]
                             ELSE [status |-> 200,
                                   url |-> findOne(backends[host], id).url,
                                   highlights |-> findOne(backends[host], id).highlights]]
    /\ UNCHANGED <<origin, page, doc, store, highlights, lastColor, pc, initApi,
                   attempted, ops, shareId, lastCall, reply, exported, backends,
                   clipboard, browser>>

\* Line 479: MongoDB deletes a document 30 days after its createdAt.
expires(host) ==
    /\ \E r \in backends[host] :
          backends' = [backends EXCEPT ![host] = @ \ {r}]
    /\ UNCHANGED <<contentScript, reply, exported, server, clipboard, browser>>

(***************************************************************************)
(* The url of the tab.                                                     *)
(***************************************************************************)
\* popup.js lines 18-19: the popup is opened on the tab.
popupInit ==
    /\ popupUrl = NoUrl
    /\ popupUrl' = popupNormalizeUrl(href)
    /\ UNCHANGED <<contentScript, reply, exported, backends, server, clipboard, href,
                   currentUrl, otherTab, popup>>

\* The popup is closed.
popupClose ==
    /\ popupUrl # NoUrl
    /\ popup = Idle
    /\ popupUrl' = NoUrl
    /\ UNCHANGED <<contentScript, reply, exported, backends, server, clipboard, href,
                   currentUrl, otherTab, popup>>

\* The url without its query and its fragment.
Stripped(url) == SelectSeq(url, LAMBDA piece : piece \notin Queries \cup Fragments)

\* The page changes the query or the fragment of its url (a link to an
\* anchor of the page, history.pushState): no document is loaded, the
\* TextHighlighter stays.
navigateInPage ==
    /\ \E url \in Hrefs :
          /\ url # href
          /\ Stripped(url) = Stripped(href)
          /\ href' = url
    /\ UNCHANGED <<contentScript, reply, exported, backends, server, clipboard, currentUrl,
                   popupUrl, otherTab, popup>>

(***************************************************************************)
(* The environment: the tab is reloaded; the served page changes.          *)
(***************************************************************************)
\* Lines 718-724 and 222-231 on a load of the page: a new TextHighlighter
\* on the document the server delivers; the calls of the old one are gone
\* with its document.
Load(served, anytime) ==
    /\ anytime \/ \A s \in Slots : ops[s] = Idle
    /\ page' = served
    /\ doc' = served
    /\ highlights' = <<>>
    /\ lastColor' = "yellow"
    /\ pc' = "getSettings"
    /\ initApi' = "local"
    /\ attempted' = <<>>
    /\ ops' = [s \in Slots |-> Idle]
    /\ lastCall' = [op |-> "constructor", outcome |-> ""]
    /\ UNCHANGED <<outside, origin, shareId, store, started>>

\* The tab is reloaded and the page is as it was.
Reload(anytime) == Load(page, anytime)

\* The tab is reloaded after the site has inserted an unrelated paragraph
\* into the page.
ReloadChanged(anytime) ==
    /\ page = origin
    /\ \E x \in InsertionPoints(page) :
          Load(insertChild(page, x[1], x[2], Inserted), anytime)

(***************************************************************************)
(* Specifications.                                                         *)
(***************************************************************************)
\* Date.now(): the calls are made at successive times.
Now == started + 1

\* Line 713: Date.now() in base 36 followed by Math.random() in base 36.
\* Calls made at different times get different ids.
generateId == Now

\* The ids a marker or a popup entry can carry: those generated so far.
KnownIds == 1..started

InitSteps == initGetSettings \/ initGetStorageAPI \/ restoreHighlights
                \/ checkForSharedHighlights

Calls(concurrent, limit, palette) ==
    /\ CanCall(concurrent, limit)
    /\ \/ \E selection \in Selections(doc), color \in palette :
             createHighlight(selection, color, generateId, Now)
       \/ \E id \in KnownIds, note \in Prompts : editNote(id, note)
       \/ \E id \in KnownIds : removeHighlight(id, "page")

StorageSteps ==
    \E s \in Slots :
       \/ getStorageAPI(s)
       \/ addHighlight(s)
       \/ updateHighlight(s)
       \/ deleteHighlight(s)
       \/ saveHighlightsRead(s)
       \/ saveHighlightsWrite(s)
       \/ createHighlightResume(s)
       \/ updateSettingsRead(s)
       \/ updateSettingsWrite(s)
       \/ editNoteResume(s)
       \/ removeHighlightResume(s)

\* One tab on one page, handler calls overlapping freely.
Init == InitWith({PageTiny}, {FALSE}, {EmptyArea})

Next == initGetSettings \/ initGetStorageAPI \/ restoreHighlights
           \/ Calls(TRUE, MaxOps, Colors) \/ StorageSteps \/ Reload(TRUE)

Spec == Init /\ [][Next]_vars

\* One tab, one handler call at a time, on a page that changes between loads
\* and is opened through a share link.
InitAnchor == InitWith({PageSimple}, {TRUE}, {EmptyArea})

NextAnchor == InitSteps \/ Calls(FALSE, MaxAnchorOps, {"green"}) \/ StorageSteps
                 \/ Reload(FALSE) \/ ReloadChanged(FALSE)

SpecAnchor == InitAnchor /\ [][NextAnchor]_vars

\* The highlight made earlier on the other page, <p>a b</p>.
OtherHighlight ==
    LET node  == Head(TextPathsUnder(PageSimple, <<>>))
        range == MkRange(node, 0, node, 1)
    IN  newHighlight(-1, <<"a">>, "yellow", 0,
                     createAnchor(PageSimple, range, <<"a">>))

\* The local area after that highlight was made.
UsedArea ==
    [highlights |-> [NoHighlights EXCEPT ![OtherUrl] = <<OtherHighlight>>],
     settings   |-> DefaultSettings]

Messages(concurrent, limit) ==
    /\ CanCall(concurrent, limit)
    /\ reply.status # "pending"
    /\ \E request \in Requests : handleMessage(request)

PopupSteps == \E s \in Slots : deleteAllHighlightsResume(s)

FailureSteps == (\E s \in Slots : storageSetRejects(s)) \/ messagePortClosed

\* One tab with its popup and the service worker: handler calls and
\* messages overlapping freely.
InitPopup == InitWith({PageTiny}, {FALSE}, {UsedArea})

NextPopup == initGetSettings \/ initGetStorageAPI \/ restoreHighlights
                \/ Calls(TRUE, MaxPopupOps, {"green"})
                \/ Messages(TRUE, MaxPopupOps)
                \/ StorageSteps \/ PopupSteps \/ Reload(FALSE)

SpecPopup == InitPopup /\ [][NextPopup]_vars

\* One tab with its popup, one handler call or message at a time, storage
\* writes that can fail.
NextFailure == initGetSettings \/ initGetStorageAPI \/ restoreHighlights
                  \/ Calls(FALSE, MaxFailureOps, {"green"})
                  \/ Messages(FALSE, MaxFailureOps)
                  \/ StorageSteps \/ PopupSteps \/ FailureSteps \/ Reload(FALSE)

SpecFailure == InitPopup /\ [][NextFailure]_vars

Imports(limit) == CanCall(FALSE, limit) /\ \E data \in Files : importData(data)

\* One tab with its popup, from a fresh install: one handler call at a
\* time, exports and imports between them.
NextImport == initGetSettings \/ initGetStorageAPI \/ restoreHighlights
                 \/ Calls(FALSE, MaxImportOps, {"green"})
                 \/ StorageSteps \/ exportData \/ Imports(MaxImportOps)
                 \/ Reload(FALSE)

SpecImport == Init /\ [][NextImport]_vars

\* One user highlights and shares, another opens the link.
NextShare == InitSteps \/ Calls(FALSE, MaxShareOps, {"green"}) \/ StorageSteps
                \/ handleShare(generateId) \/ openSharedLink \/ Reload(FALSE)

SpecShare == Init /\ [][NextShare]_vars

\* What Math.random() can return.
Randoms == {0, 1}

\* What Date.now() can return at the next call: the clock has moved on
\* since the previous call, or the call is made within the same millisecond.
Clock == {MaxOf(1, started), started + 1}

\* Line 713: the time in base 36 followed by the random number in base 36;
\* two ids are equal when both parts are.
generateIdFrom(now, random) == now * Cardinality(Randoms) + random

CreateSteps ==
    \E s \in Slots :
       \/ getStorageAPI(s)
       \/ addHighlight(s)
       \/ saveHighlightsRead(s)
       \/ saveHighlightsWrite(s)
       \/ createHighlightResume(s)
       \/ updateSettingsRead(s)
       \/ updateSettingsWrite(s)

Creations(limit) ==
    /\ CanCall(FALSE, limit)
    /\ \E selection \in Selections(doc), now \in Clock, random \in Randoms :
          createHighlight(selection, "green", generateIdFrom(now, random), now)

\* One tab, one createHighlight at a time, ids as generateId draws them.
NextIds == initGetSettings \/ initGetStorageAPI \/ restoreHighlights
              \/ Creations(MaxIdOps) \/ CreateSteps \/ Reload(FALSE)

SpecIds == Init /\ [][NextIds]_vars

RangeSteps ==
    \E s \in Slots :
       \/ getStorageAPI(s)
       \/ addHighlight(s)
       \/ deleteHighlight(s)
       \/ saveHighlightsRead(s)
       \/ saveHighlightsWrite(s)
       \/ createHighlightResume(s)
       \/ updateSettingsRead(s)
       \/ updateSettingsWrite(s)
       \/ removeHighlightResume(s)

RangeCalls(limit) ==
    /\ CanCall(FALSE, limit)
    /\ \/ \E selection \in AllSelections(doc) :
             createHighlight(selection, "green", generateId, Now)
       \/ \E id \in KnownIds : removeHighlight(id, "page")

\* One tab, one handler call at a time, on pages with nested elements or a
\* repeated id, selections reaching from one text node into another.
InitRange == InitWith({PageNested, PageTwins}, {FALSE}, {EmptyArea})

NextRange == initGetSettings \/ initGetStorageAPI \/ restoreHighlights
                \/ RangeCalls(MaxRangeOps) \/ RangeSteps \/ Reload(FALSE)

SpecRange == InitRange /\ [][NextRange]_vars

\* The highlight the other tab makes on its page.
OtherTabHighlight == [OtherHighlight EXCEPT !.id = generateId, !.timestamp = Now]

OtherTabCalls(limit) ==
    /\ started < limit
    /\ \/ otherTabCalls("addHighlight", OtherTabHighlight, generateId)
       \/ \E id \in IdSet(storedList(store, storageAPI(store), OtherUrl)) :
             otherTabCalls("deleteHighlight", Null, id)
       \/ otherTabCalls("deleteAllHighlights", Null, NoId)

OtherTabSteps ==
    \/ otherTabGetStorageAPI
    \/ otherTabGetHighlights
    \/ otherTabSaveHighlightsRead
    \/ otherTabSaveHighlightsWrite

\* Two tabs on two pages, each making one call at a time, the calls of the
\* one overlapping those of the other.
NextTabs == initGetSettings \/ initGetStorageAPI \/ restoreHighlights
               \/ Calls(FALSE, MaxTabOps, {"green"}) \/ StorageSteps
               \/ OtherTabCalls(MaxTabOps) \/ OtherTabSteps

SpecTabs == InitPopup /\ [][NextTabs]_vars

Toggles(limit) ==
    /\ CanCall(FALSE, limit)
    /\ \E useSync \in BOOLEAN : updateSyncSetting(useSync)

SyncSteps == updateSyncSettingSet \/ updateSyncSettingGet \/ updateSyncSettingCopy

\* One tab with its popup, one handler call or toggle of the sync checkbox
\* at a time.
NextSync == initGetSettings \/ initGetStorageAPI \/ restoreHighlights
               \/ (popup = Idle /\ Calls(FALSE, MaxSyncOps, {"green"}))
               \/ StorageSteps \/ Toggles(MaxSyncOps) \/ SyncSteps

SpecSync == Init /\ [][NextSync]_vars

\* The clients of the backends: posts and gets, and time passing.
Posts(limit) ==
    /\ started < limit
    /\ \E host \in Hosts, body \in Bodies, id \in ShareIds :
          postApiHighlights(host, body, id)

Gets(limit) ==
    /\ started < limit
    /\ \E host \in Hosts, id \in ShareIds : getApiHighlights(host, id)

Expiries == \E host \in Hosts : expires(host)

NextBackend == Posts(MaxBackendOps) \/ Gets(MaxBackendOps) \/ Expiries

SpecBackend == Init /\ [][NextBackend]_vars

\* A tab on any page of the web, its url changing in place, and its popup.
InitUrl == InitOn({PageTiny}, {FALSE}, {EmptyArea}, Hrefs)

NextUrl == popupInit \/ popupClose \/ navigateInPage

SpecUrl == InitUrl /\ [][NextUrl]_vars

(***************************************************************************)
(* Properties.                                                             *)
(***************************************************************************)
Quiet == pc = "Ready" /\ \A s \in Slots : ops[s] = Idle

persisted == storedList(store, "local", Url)

\* C1 (list integrity): once init and every handler call have finished, the
\* ids of this.highlights are the ids of the persisted list of the page.
C1_ListIntegrity == Quiet => IdSet(highlights) = IdSet(persisted)

\* init has run to its end on a freshly loaded document and no handler has
\* been called since.
FreshLoad == Quiet /\ lastCall.op = "constructor"

\* h is a highlight createHighlight makes on document d from a selection
\* inside one text node.
EncodedOn(d, h) ==
    \E r \in TextRanges(d) :
       LET text == trim(toString(d, r))
       IN  text # <<>> /\ h.text = text /\ h.anchor = createAnchor(d, r, text)

\* C2 (round-trip stability): with a single highlight in the store, made from
\* a selection inside one text node, a load of the unmodified page leaves
\* exactly one marker carrying its id, and that marker wraps highlight.text.
C2_RoundTrip ==
    (FreshLoad /\ page = origin /\ Len(persisted) = 1 /\ EncodedOn(origin, persisted[1]))
       => LET h == persisted[1]
              marks == MarksOf(doc, h.id)
          IN  Len(marks) = 1 /\ textContent(doc, marks[1]) = h.text

\* The text node restoreHighlight finds for h in d, or NoNode.
FoundNode(d, h) ==
    LET element == evaluate(d, h.anchor.xpath)
    IN  IF element = NoNode THEN NoNode ELSE findTextNode(d, element, h.anchor)

\* C3 (relocation by found index): when restoreHighlights restores a single
\* stored highlight and finds a matching text node, the marker wraps the
\* characters [index, index + length of anchor.textContent) of that node,
\* index being the first occurrence of anchor.textContent in it.
C3_RelocationByIndex ==
    [][(restoreHighlights /\ Len(storedList(store, initApi, Url)) = 1)
          => LET h == storedList(store, initApi, Url)[1]
                 textNode == FoundNode(doc, h)
             IN  textNode # NoNode
                    => LET index == indexOf(NodeAt(doc, textNode).data, h.anchor.textContent)
                           range == MkRange(textNode, index, textNode,
                                            index + Len(h.anchor.textContent))
                       IN  doc' = applyHighlight(doc, range, h)]_vars

\* The elements of d whose text is that of the container of h in the page as
\* first served: where the original container is now.
ContainersOf(d, h) ==
    LET container == evaluate(origin, h.anchor.xpath)
        all == AllPaths(d)
    IN  {all[i] : i \in {j \in 1..Len(all) :
            /\ NodeAt(d, all[j]).kind = "elem"
            /\ NodeAt(d, all[j]).tag = NodeAt(origin, container).tag
            /\ textContent(d, all[j]) = textContent(origin, container)}}

\* C4 (drift tolerance): with a single highlight in the store, encoded against
\* the page as first served, a load of the page with an unrelated paragraph
\* inserted elsewhere leaves a marker of the highlight in the original
\* container, wrapping the text between the stored offsets.
C4_DriftTolerance ==
    (FreshLoad /\ page # origin /\ Len(persisted) = 1 /\ EncodedOn(origin, persisted[1]))
       => LET h == persisted[1]
              marks == MarksOf(doc, h.id)
              container == evaluate(origin, h.anchor.xpath)
          IN  /\ Len(marks) = 1
              /\ Front(marks[1]) \in ContainersOf(doc, h)
              /\ textContent(doc, marks[1])
                    = substring(textContent(origin, container),
                                h.anchor.startOffset, h.anchor.endOffset)

\* x, the text on one side of an occurrence, has nothing of the context ctx
\* the anchor recorded on that side.
UnrelatedSide(x, ctx) == x # ctx /\ Range(x) \cap Range(ctx) = {}

\* text contains anchor.textContent in completely unrelated surroundings.
Unrelated(text, anchor) ==
    /\ includes(text, anchor.textContent)
    /\ LET index == indexOf(text, anchor.textContent)
       IN  /\ UnrelatedSide(substring(text, 0, index), anchor.prefix)
           /\ UnrelatedSide(substring(text, index + Len(anchor.textContent), Len(text)),
                            anchor.suffix)

\* C5 (checkpoint rejection): when restoreHighlights restores a single stored
\* highlight, the text node it finds does not hold anchor.textContent in
\* completely unrelated surrounding text.
C5_CheckpointRejection ==
    [][(restoreHighlights /\ Len(storedList(store, initApi, Url)) = 1)
          => LET h == storedList(store, initApi, Url)[1]
                 textNode == FoundNode(doc, h)
             IN  textNode # NoNode => ~Unrelated(NodeAt(doc, textNode).data, h.anchor)]_vars

\* C6 (restoration is read-only on storage): no step of init (getSettings,
\* restoreHighlights, checkForSharedHighlights) changes chrome.storage; a
\* single stored highlight for which no text node is found gets no marker
\* and is still in the stored list afterwards.
C6_RestoreReadOnly ==
    [][InitSteps
          => /\ store' = store
             /\ (restoreHighlights /\ Len(storedList(store, initApi, Url)) = 1)
                   => LET h == storedList(store, initApi, Url)[1]
                      IN  FoundNode(doc, h) = NoNode
                             => /\ MarksOf(doc', h.id) = <<>>
                                /\ storedList(store', initApi, Url) = <<h>>]_vars

\* init has ended and a stored highlight was not restored: it has no marker
\* and is still stored.
C6_Witness ==
    /\ FreshLoad
    /\ persisted # <<>>
    /\ \E i \in 1..Len(persisted) : MarksOf(doc, persisted[i].id) = <<>>

\* C7 (restore always completes): init is never ended by an error; once
\* restoreHighlights has run, it has handed every stored highlight to
\* restoreHighlight exactly once, in stored order, whatever the outcomes.
C7_RestoreCompletes ==
    /\ pc # "Failed"
    /\ (pc \in {"fetchSharedHighlights", "Ready"} /\ lastCall.op = "constructor")
          => attempted = idsOf(storedList(store, initApi, Url))

\* init is Ready after a restore of two stored highlights in which the first
\* got no marker and the second got one.
C7_Witness ==
    /\ FreshLoad
    /\ Len(persisted) = 2
    /\ attempted = idsOf(persisted)
    /\ MarksOf(doc, persisted[1].id) = <<>>
    /\ MarksOf(doc, persisted[2].id) # <<>>

\* createHighlight is called in this step.
CreateCalled == started' = started + 1 /\ lastCall'.op = "createHighlight"

\* C8 (failed creation is a no-op): a createHighlight call with a selection
\* that is empty or whitespace only, or for which createAnchor returns null,
\* leaves this.highlights, the DOM, chrome.storage (lists and settings) and
\* this.lastColor as they were.
C8_FailedCreationNoOp ==
    [][CreateCalled
          => \A selection \in Selections(doc) :
                (\/ trim(toString(doc, selection)) = <<>>
                 \/ createAnchor(doc, selection, trim(toString(doc, selection))) = Null)
                   => \A color \in Colors :
                         createHighlight(selection, color, generateId, Now)
                            => UNCHANGED <<highlights, doc, store, lastColor>>]_vars

\* A createHighlight call has just failed on a page that has a highlight of
\* another color than the default one.
C8_Witness ==
    /\ lastCall.op = "createHighlight"
    /\ lastCall.outcome \in {"emptySelection", "noAnchor"}
    /\ highlights # <<>>
    /\ MarkPaths(doc) # <<>>
    /\ lastColor = "green"

\* C9 (creation appends): a createHighlight call that gets its anchor makes
\* this.highlights the former list followed by one record with the given
\* color, note '' and the trimmed selection as text and anchor.textContent;
\* and the storage write of that call makes the stored list of the page the
\* former stored list followed by that record.
C9_CreationAppends ==
    [][/\ \A selection \in Selections(doc), color \in Colors :
             (/\ createHighlight(selection, color, generateId, Now)
              /\ lastCall'.outcome = "started")
                => /\ Len(highlights') = Len(highlights) + 1
                   /\ SubSeq(highlights', 1, Len(highlights)) = highlights
                   /\ LET h == highlights'[Len(highlights')]
                      IN  /\ h.color = color
                          /\ h.note = ""
                          /\ h.text = trim(toString(doc, selection))
                          /\ h.anchor.textContent = h.text
       /\ \A s \in Slots :
             (saveHighlightsWrite(s) /\ ops[s].op = "createHighlight")
                => persisted' = Append(persisted, ops[s].h)]_vars

\* new is old with the note of the record of that id replaced, and nothing
\* else.
OnlyNote(old, new, highlightId, note) ==
    /\ Len(new) = Len(old)
    /\ \A i \in 1..Len(old) :
          new[i] = IF old[i].id = highlightId THEN [old[i] EXCEPT !.note = note]
                   ELSE old[i]

\* The node n with every data-note erased.
RECURSIVE EraseNotes(_)
EraseNotes(n) ==
    [n EXCEPT !.note = "", !.kids = [i \in 1..Len(n.kids) |-> EraseNotes(n.kids[i])]]

\* C10 (editNote changes only the note): the call changes, in this.highlights,
\* the note of the record of that id and nothing else, and nothing at all
\* when no record has the id or the prompt is cancelled; its updateHighlight
\* finds the record in the stored list, and its storage write changes the
\* note of that record and nothing else in chrome.storage; its last step
\* changes nothing but data-note in the DOM.
C10_EditNoteOnlyNote ==
    [][/\ \A id \in KnownIds, note \in Prompts :
             editNote(id, note)
                => /\ UNCHANGED <<doc, store>>
                   /\ IF id \notin IdSet(highlights) \/ note = Null
                      THEN highlights' = highlights
                      ELSE OnlyNote(highlights, highlights', id, note.text)
       /\ \A s \in Slots :
             /\ updateHighlight(s) => ops[s].id \in IdSet(persisted)
             /\ (saveHighlightsWrite(s) /\ ops[s].op = "editNote")
                   => /\ OnlyNote(persisted, persisted', ops[s].id, ops[s].note)
                      /\ store' = withList(store, "local", Url, persisted')
             /\ editNoteResume(s)
                   => /\ UNCHANGED <<highlights, store>>
                      /\ EraseNotes(doc') = EraseNotes(doc)]_vars

\* The texts the markers of the id wrap, in document order.
MarkedTexts(d, highlightId) ==
    LET marks == MarksOf(d, highlightId)
    IN  [i \in 1..Len(marks) |-> textContent(d, marks[i])]

\* C11 (idempotent removal): a removeHighlight call for an id that has no
\* marker leaves the DOM, this.highlights and chrome.storage as they are; its
\* storage write, for an id that is not in the stored list, leaves
\* chrome.storage as it is; its last step, for an id that is not in
\* this.highlights, leaves this.highlights as it is.
C11_IdempotentRemoval ==
    [][/\ \A id \in KnownIds :
             (MarksOf(doc, id) = <<>> /\ removeHighlight(id, "page"))
                => UNCHANGED <<doc, highlights, store>>
       /\ \A s \in Slots :
             /\ (/\ saveHighlightsWrite(s)
                 /\ ops[s].op = "removeHighlight"
                 /\ ops[s].id \notin IdSet(persisted))
                   => store' = store
             /\ (removeHighlightResume(s) /\ ops[s].id \notin IdSet(highlights))
                   => UNCHANGED <<doc, highlights, store>>]_vars

\* C12 (independent removal): a removeHighlight call leaves the markers of
\* every other id wrapping the same texts; its storage write removes the
\* records of that id from the stored list and leaves every other record,
\* in order; its last step does the same to this.highlights.
C12_IndependentRemoval ==
    [][/\ \A id \in KnownIds :
             removeHighlight(id, "page")
                => /\ \A other \in KnownIds \ {id} :
                         MarkedTexts(doc', other) = MarkedTexts(doc, other)
                   /\ UNCHANGED <<highlights, store>>
       /\ \A s \in Slots :
             /\ (saveHighlightsWrite(s) /\ ops[s].op = "removeHighlight")
                   => persisted' = SelectSeq(persisted, LAMBDA h : h.id # ops[s].id)
             /\ removeHighlightResume(s)
                   => /\ highlights' = SelectSeq(highlights, LAMBDA h : h.id # ops[s].id)
                      /\ UNCHANGED <<doc, store>>]_vars

\* C17 (last-used color): once init and every handler call have finished and
\* settings are stored, this.lastColor is the stored settings.lastColor.
C17_LastColor ==
    (Quiet /\ store.local.settings # Null) => lastColor = store.local.settings.lastColor

\* C13 (remove-all post-state): when deleteAllHighlights completes the
\* document has no marker, this.highlights is empty, the stored list of the
\* page is empty and the list of the other page is as it was.
C13_RemoveAllPostState ==
    [][\A s \in Slots :
          deleteAllHighlightsResume(s)
             => /\ MarkPaths(doc') = <<>>
                /\ highlights' = <<>>
                /\ persisted' = <<>>
                /\ storedList(store', "local", OtherUrl) = <<OtherHighlight>>]_vars

\* The notes the records of the id carry in the list.
NotesOf(list, highlightId) ==
    {list[i].note : i \in {j \in 1..Len(list) : list[j].id = highlightId}}

\* C14 (persistence failure semantics): when the storage write of a
\* creation, an edit or a removal fails, the change stays in memory (the new
\* highlight is in this.highlights, the record has the new note, the removed
\* highlight is not in this.highlights) and a popup that asked for the
\* removal is not told it succeeded.
C14_WriteFailure ==
    [][\A s \in Slots :
          (storageSetRejects(s) /\ ops[s].pc = "save.write")
             => /\ ops[s].op = "createHighlight" => ops[s].id \in IdSet(highlights')
                /\ ops[s].op = "editNote"
                      => NotesOf(highlights', ops[s].id) = {ops[s].note}
                /\ ops[s].op = "removeHighlight"
                      => ops[s].id \notin IdSet(highlights')
                /\ ops[s].message => reply'.status # "success"]_vars

\* C16 (context-menu highlighting): the service worker's message
\* {action: 'highlightSelection', color} makes the content script create a
\* highlight of that color: the message is not answered with an error and
\* this.highlights gains a record of the color.
C16_ContextMenuHighlights ==
    [][\A request \in ContextMenuRequests :
          handleMessage(request)
             => /\ reply'.status # "Unknown action"
                /\ Len(highlights') = Len(highlights) + 1
                /\ highlights'[Len(highlights')].color = request.color]_vars

\* C15 (malformed records skipped): once a load has finished, init is Ready,
\* every stored record was handed to restoreHighlight, and no record without
\* anchor, or whose anchor lacks xpath, prefix, suffix or textContent, has a
\* marker.
C15_MalformedSkipped ==
    /\ pc # "Failed"
    /\ FreshLoad =>
          /\ attempted = idsOf(persisted)
          /\ \A i \in 1..Len(highlights) :
                Malformed(highlights[i]) => MarksOf(doc, highlights[i].id) = <<>>

\* What a dump holds for the pages and as settings, read as the code reads
\* the store (lines 47, 56 and 136).
ListsOf(data) == IF "highlights" \in DOMAIN data THEN data.highlights ELSE NoHighlights

SettingsOf(data) == IF "settings" \in DOMAIN data THEN data.settings ELSE DefaultSettings

\* C19 (export/import round trip): an import of the exported file leaves the
\* list of every page and the settings as they were when the file was
\* exported, whatever was highlighted or removed in between.
C19_ExportImportRoundTrip ==
    [][(exported # Null /\ importData(exported))
          => /\ ListsOf(Dump(store'.local)) = ListsOf(exported)
             /\ SettingsOf(Dump(store'.local)) = SettingsOf(exported)
             /\ store'.sync = store.sync]_vars

\* The tab was opened through the link the popup copied, and init is over.
SharedLinkLoaded == shareId /\ clipboard # Null /\ FreshLoad

\* C18 (shared link end to end): once the page opened through the copied
\* link has loaded, every highlight the popup shared has its marker.
C18_SharedLinkApplies ==
    SharedLinkLoaded
       => LET shared == recordOf(clipboard.host, clipboard.shareId).highlights
          IN  \A i \in 1..Len(shared) : MarksOf(doc, shared[i].id) # <<>>

\* No two records of the list have the same id.
Distinct(list) ==
    \A i, j \in 1..Len(list) : i # j => list[i].id # list[j].id

\* C20 (unique ids): the ids of this.highlights are pairwise distinct, and
\* so are the ids of the stored list of the page.
C20_UniqueIds == Distinct(highlights) /\ Distinct(persisted)

\* C24 (page key): for the http and https url of a tab, the key of the
\* content script is the url without its query and fragment (scheme, host
\* with port, path); every url that differs from it only in query or
\* fragment has the same key; normalizing the key again gives the key; and
\* the key of the popup opened on the tab is the key of the content script.
C24_PageKey ==
    /\ currentUrl = Stripped(href)
    /\ \A url \in Hrefs :
          Stripped(url) = Stripped(href) => normalizeUrl(url) = currentUrl
    /\ normalizeUrl(currentUrl) = currentUrl
    /\ popupNormalizeUrl(currentUrl) = currentUrl
    /\ popupUrl # NoUrl => popupUrl = currentUrl

\* The popup is open on a tab whose url has a port, a query and a fragment.
C24_Witness ==
    /\ popupUrl # NoUrl
    /\ Pieces(href, Ports) # <<>>
    /\ Pieces(href, Queries) # <<>>
    /\ Pieces(href, Fragments) # <<>>

\* C21 (offset ordering): the offsets of the anchor of every highlight are
\* non-negative and startOffset is at most endOffset.
C21_OffsetOrdering ==
    \A i \in 1..Len(highlights) :
       /\ highlights[i].anchor.startOffset >= 0
       /\ highlights[i].anchor.endOffset >= 0
       /\ highlights[i].anchor.startOffset <= highlights[i].anchor.endOffset

\* The number of characters the text nodes of the element before the text
\* node hold: where the text of the node starts in element.textContent.
OffsetIn(d, element, node) ==
    LET tp == TextPathsUnder(d, element)
    IN  Len(Concat([i \in 1..(PosIn(tp, node) - 1) |-> NodeAt(d, tp[i]).data]))

\* The context the anchor of a selection inside one text node is to record:
\* the characters of the text of the container (the parent element of the
\* text node) before and after the selected span, ContextLen at most.
ContextOf(d, range) ==
    LET container == Front(range.sc)
        text  == textContent(d, container)
        start == OffsetIn(d, container, range.sc) + range.so
        end   == OffsetIn(d, container, range.sc) + range.eo
    IN  [prefix |-> substring(text, MaxOf(0, start - ContextLen), start),
         suffix |-> substring(text, end, MinOf(Len(text), end + ContextLen))]

\* C22 (context extraction): the anchor createHighlight makes for a
\* selection inside one text node has as prefix the characters of the text
\* of the container before the selected span and as suffix those after it,
\* ContextLen at most on each side.
C22_ContextExtraction ==
    [][CreateCalled
          => \A selection \in TextRanges(doc) :
                (/\ createHighlight(selection, "green", generateId, Now)
                 /\ lastCall'.outcome = "started")
                   => LET anchor == highlights'[Len(highlights')].anchor
                      IN  /\ anchor.prefix = ContextOf(doc, selection).prefix
                          /\ anchor.suffix = ContextOf(doc, selection).suffix
                          /\ Len(anchor.prefix) <= ContextLen
                          /\ Len(anchor.suffix) <= ContextLen]_vars

\* The elements an XPath selects in the document.
Selected(d, xpath) ==
    LET all   == AllPaths(d)
        roots == IF xpath.root = "" THEN {<<>>}
                 ELSE {all[i] : i \in {j \in 1..Len(all) :
                          /\ NodeAt(d, all[j]).kind = "elem"
                          /\ NodeAt(d, all[j]).id = xpath.root}}
    IN  {Follow(d, q, xpath.steps) : q \in roots} \ {NoNode}

\* C23 (unambiguous path): the path of the anchor createHighlight makes for
\* a selection inside one text node resolves, in the document as it is, to
\* the parent element of that text node; and a stored highlight whose path
\* selects no element or more than one gets no marker when it is restored.
C23_UnambiguousPath ==
    [][/\ CreateCalled
          => \A selection \in TextRanges(doc) :
                (/\ createHighlight(selection, "green", generateId, Now)
                 /\ lastCall'.outcome = "started")
                   => evaluate(doc, highlights'[Len(highlights')].anchor.xpath)
                         = Front(selection.sc)
       /\ restoreHighlights
          => \A i \in 1..Len(highlights') :
                Cardinality(Selected(doc, highlights'[i].anchor.xpath)) # 1
                   => MarksOf(doc', highlights'[i].id) = <<>>]_vars

\* C27 (no highlight without a marker): a createHighlight call that inserts
\* no marker adds no record to this.highlights and starts no storage write;
\* and every record a call adds to the stored list has its marker.
C27_NoHighlightWithoutMarker ==
    [][/\ CreateCalled
          => (MarksOf(doc', generateId) = <<>>
                 => highlights' = highlights /\ ops' = ops)
       /\ \A s \in Slots :
             (saveHighlightsWrite(s) /\ ops[s].op = "createHighlight")
                => MarksOf(doc, ops[s].id) # <<>>]_vars

\* The stored highlight gets one marker, wrapping its text, when the list is
\* restored on the document.
RestoredIn(d, list, h) ==
    MarkedTexts(restoreAll(d, list, <<>>).doc, h.id) = <<h.text>>

\* C26 (restoration does not depend on other highlights): after a load of
\* the unmodified page, a stored highlight has a marker wrapping its text
\* exactly if it gets one when it is the only stored highlight.
C26_RestoreIndependent ==
    (FreshLoad /\ page = origin)
       => \A i \in 1..Len(persisted) :
             (MarkedTexts(doc, persisted[i].id) = <<persisted[i].text>>)
                <=> RestoredIn(origin, <<persisted[i]>>, persisted[i])

\* C25 (cross-page isolation): a storage write of a call made for this page
\* leaves the stored list of the other page as it is, and a storage write of
\* a call made for the other page makes the list of that page the list the
\* call computed and leaves the list of this page as it is.
C25_CrossPageIsolation ==
    [][/\ \A s \in Slots :
             saveHighlightsWrite(s)
                => storedList(store', ops[s].api, OtherUrl)
                      = storedList(store, ops[s].api, OtherUrl)
       /\ otherTabSaveHighlightsWrite
             => /\ storedList(store', otherTab.api, OtherUrl) = otherTab.list
                /\ storedList(store', otherTab.api, Url)
                      = storedList(store, otherTab.api, Url)]_vars

\* C28 (shared highlights are display-only): checkForSharedHighlights leaves
\* this.highlights and chrome.storage as they are and adds no marker for an
\* id that this.highlights has; when it is done every marker of the
\* document is the only one of its id.
C28_SharedDisplayOnly ==
    [][checkForSharedHighlights
          => /\ UNCHANGED <<highlights, store>>
             /\ \A id \in IdSet(highlights) :
                   Len(MarksOf(doc', id)) = Len(MarksOf(doc, id))
             /\ \A i \in 1..Len(MarkPaths(doc')) :
                   Len(MarksOf(doc', NodeAt(doc', MarkPaths(doc')[i]).hid)) = 1]_vars

\* A page opened through a share link has loaded, and the shared highlight
\* has the id of a highlight of this.highlights, which has its marker.
C28_Witness ==
    /\ FreshLoad
    /\ shareId
    /\ SharedHighlight(origin).id \in IdSet(highlights)
    /\ Len(MarksOf(doc, SharedHighlight(origin).id)) = 1

\* The sender of a pending message is answered {success: true} in this step.
Acknowledged == reply.status = "pending" /\ reply'.status = "success"

C30_SyncToggleKeeps ==
    [][(popup # Idle /\ popup' = Idle)
          => allHighlights(store', storageAPI(store')) = popup.before]_vars

\* C31 (settings record stays complete): whenever a settings record is
\* stored, it holds both a lastColor and a useSync.
C31_SettingsComplete ==
    store.local.settings # Null
       => /\ store.local.settings.lastColor # NoColor
          /\ store.local.settings.useSync \in BOOLEAN

====
